---- MODULE Spec2Model ----
(***************************************************************************)
(* A model of run_pdf.py: PDFGenerator, its radar chart pipeline           *)
(* (_calculate_radar_positions, _create_radar_grid, generate_radar_chart), *)
(* prepare_pdf_data and generate_pdf_subprocess, together with the part of *)
(* matplotlib.pyplot's process-wide state the code relies on (the registry *)
(* of open figures and its "current figure").                              *)
(*                                                                         *)
(* Angles are kept exact, as rational multiples of pi: <<a, b>> stands for *)
(* a*pi/b.  A Cartesian point (v*cos t, v*sin t) is kept in polar form as  *)
(* [r |-> v, theta |-> t].  Floating point rounding is not modelled.       *)
(***************************************************************************)
EXTENDS Integers, Sequences, FiniteSets, TLC

\* Largest number of genetic_results entries of an input record.
MaxN == 3
\* Number of calls made on the generator in one behaviour.
MaxCalls == 2

\* The call sites that use the one PDFGenerator.
Callers == {1, 2}

None == "None"

-----------------------------------------------------------------------------
(* Rational multiples of pi *)

PiHalf == <<1, 2>>

RatSub(p, q) == <<p[1] * q[2] - q[1] * p[2], p[2] * q[2]>>

RatDivInt(p, k) == <<p[1], p[2] * k>>

RatEq(p, q) == p[1] * q[2] = q[1] * p[2]

\* element i (0-based) of the list built at line 39: pi/2 - 2*pi*i/n_points
AngleAt(i, n_points) == RatSub(PiHalf, RatDivInt(<<2 * i, 1>>, n_points))

\* a plausible slip: the spokes run counter-clockwise
calculate_radar_positions_ccw(n_points) ==
    [k \in 1..n_points |-> RatSub(PiHalf, RatDivInt(<<0 - 2 * (k - 1), 1>>, n_points))]

\* _calculate_radar_positions: range(n_points) is empty for n_points = 0, so
\* the result is then the empty list and no division takes place.
calculate_radar_positions(n_points) ==
    [k \in 1..n_points |-> AngleAt(k - 1, n_points)]

-----------------------------------------------------------------------------
(* Geometry *)

Point(v, theta) == [r |-> v, theta |-> theta]

\* zip(a, b) stops at the shorter of the two sequences
Min(a, b) == IF a <= b THEN a ELSE b

Zip(a, b) == [k \in 1..Min(Len(a), Len(b)) |-> <<a[k], b[k]>>]

IndexError == [kind |-> "IndexError", at |-> "coords[0]"]

\* a plausible slip: the polygon is left open
ClosePolygon_open(coords) ==
    IF coords = <<>> THEN [ok |-> FALSE, err |-> IndexError]
    ELSE [ok |-> TRUE, val |-> coords]

\* coords.append(coords[0]): IndexError on an empty list
ClosePolygon(coords) ==
    IF coords = <<>> THEN [ok |-> FALSE, err |-> IndexError]
    ELSE [ok |-> TRUE, val |-> Append(coords, coords[1])]

\* a plausible slip: scores are clamped into 0..100 before plotting
SeriesCoords_clamped(values, angles) ==
    LET z == Zip(values, angles)
        clamp(v) == IF v < 0 THEN 0 ELSE IF v > 100 THEN 100 ELSE v
    IN  ClosePolygon([k \in 1..Len(z) |-> Point(clamp(z[k][1]), z[k][2])])

\* lines 97-100: the points of the data polygon
SeriesCoords(values, angles) ==
    LET z == Zip(values, angles)
    IN  ClosePolygon([k \in 1..Len(z) |-> Point(z[k][1], z[k][2])])

GridStep == 25

DefaultMaxValue == 100

\* range(25, max_value + 1, 25)
GridValues(max_value) ==
    {v \in 1..max_value : v >= GridStep /\ (v - GridStep) % GridStep = 0}

RECURSIVE SortedSeq(_)
SortedSeq(S) ==
    IF S = {} THEN <<>>
    ELSE LET m == CHOOSE x \in S : \A y \in S : x <= y
         IN  <<m>> \o SortedSeq(S \ {m})

RingStyle(radial_value, max_value) ==
    [color     |-> IF radial_value = max_value THEN "#333333" ELSE "gray",
     linewidth |-> IF radial_value = max_value THEN 15 ELSE 5,
     linestyle |-> IF radial_value = max_value THEN "-" ELSE "--",
     alpha     |-> IF radial_value = max_value THEN 10 ELSE 7]

\* one ring of _create_radar_grid (lines 48-60); linewidth and alpha in tenths
GridRing(radial_value, angles, max_value) ==
    [kind  |-> "ring",
     value |-> radial_value,
     pts   |-> ClosePolygon([k \in 1..Len(angles) |-> Point(radial_value, angles[k])]).val,
     style |-> RingStyle(radial_value, max_value)]

\* _create_radar_grid: the artists it plots, in order. With an empty angle
\* list grid_coords[0] raises, which generate_radar_chart never reaches.
create_radar_grid(angles, max_value) ==
    LET vs == SortedSeq(GridValues(max_value))
    IN  [k \in 1..Len(vs) |-> GridRing(vs[k], angles, max_value)]

\* _add_radar_labels: one text per ring at -pi/6, at 90% of the radius
add_radar_labels(max_value) ==
    LET vs == SortedSeq(GridValues(max_value))
    IN  [k \in 1..Len(vs) |->
            [kind |-> "text", value |-> vs[k],
             at |-> [r100 |-> vs[k] * 90, theta |-> <<0 - 1, 6>>]]]

\* lines 110-112
Spokes(angles) ==
    [k \in 1..Len(angles) |->
        [kind |-> "spoke", pts |-> <<Point(0, angles[k]), Point(DefaultMaxValue, angles[k])>>]]

\* lines 115-121: outline, fill, centre marker and the "0%" text
SeriesArtists(poly) ==
    << [kind |-> "outline", pts |-> poly],
       [kind |-> "fill", pts |-> poly],
       [kind |-> "marker", pts |-> <<Point(0, PiHalf)>>],
       [kind |-> "zero", pts |-> <<>>] >>

-----------------------------------------------------------------------------
(* Input records.  A string is a sequence of characters, so that int() has *)
(* something to parse; a mapping is a function on its keys; the            *)
(* genetic_results mapping is the sequence of its values in iteration      *)
(* order (only .values() is ever read).                                    *)

Digits == <<"0", "1", "2", "3", "4", "5", "6", "7", "8", "9">>

IsDigit(ch) == \E i \in 1..10 : Digits[i] = ch

DigitVal(ch) == (CHOOSE i \in 1..10 : Digits[i] = ch) - 1

RECURSIVE DigitsValue(_)
DigitsValue(s) ==
    IF s = <<>> THEN 0
    ELSE 10 * DigitsValue(SubSeq(s, 1, Len(s) - 1)) + DigitVal(s[Len(s)])

ValueError == [kind |-> "ValueError", at |-> "int(result)"]

KeyError(k) == [kind |-> "KeyError", at |-> k]

\* int(str): an optional sign followed by one or more decimal digits
IntParse(s) ==
    LET signed == s # <<>> /\ s[1] \in {"-", "+"}
        body   == IF signed THEN Tail(s) ELSE s
    IN  IF body = <<>> \/ \E k \in 1..Len(body) : ~IsDigit(body[k])
        THEN [ok |-> FALSE, err |-> ValueError]
        ELSE [ok |-> TRUE,
              val |-> IF signed /\ s[1] = "-" THEN 0 - DigitsValue(body)
                      ELSE DigitsValue(body)]

ScoreCycle == << <<"0">>, <<"1", "0", "0">>, <<"1", "5", "0">>, <<"-", "5">> >>

Labels == <<"A", "C", "E", "I">>

Shifts == {0}

GoodEntry(i, shift) ==
    [holland_code |-> Labels[((i - 1) % 4) + 1],
     result       |-> ScoreCycle[((i - 1 + shift) % 4) + 1]]

GoodResults(n, shift) == [i \in 1..n |-> GoodEntry(i, shift)]

\* the last entry's score is not a number
NonNumericResults(n) ==
    [i \in 1..n |-> IF i = n THEN [holland_code |-> "A", result |-> <<"x">>]
                    ELSE GoodEntry(i, 0)]

\* the last entry has no holland_code
UnlabelledResults(n) ==
    [i \in 1..n |-> IF i = n THEN [result |-> <<"5">>] ELSE GoodEntry(i, 0)]

GeneticResults ==
    {GoodResults(n, s) : n \in 0..MaxN, s \in Shifts}
        \cup {NonNumericResults(MaxN), UnlabelledResults(MaxN)}

RecordOf(gr) ==
    [OrderInfo  |-> [order_id |-> "OAT250300005"],
     EDAPPGS006 |-> [ResultInfo |-> [genetic_results |-> gr]]]

\* a record the fixed path does not lead through
PathlessRecord ==
    [OrderInfo  |-> [order_id |-> "OAT250300005"],
     EDAPPGS006 |-> [ResultInfo |-> [careers |-> "none"]]]

StalePayload == [b64 |-> [format |-> "svg", image |-> [owner |-> 0]]]

\* d[k] = v as an assignment to a mapping: the key is added or overwritten
SetItem(d, k, v) == [x \in DOMAIN d \cup {k} |-> IF x = k THEN v ELSE d[x]]

\* @lru_cache(maxsize=128)
CacheMaxSize == 128

\* the use order after n is used: n becomes the most recently used
Touch(order, n) == SelectSeq(order, LAMBDA k : k # n) \o <<n>>

\* the counts the cache holds under a use order: the last CacheMaxSize
Held(order) ==
    {order[i] : i \in {j \in 1..Len(order) : j > Len(order) - CacheMaxSize}}

\* the cached list with its first element appended once more
CachePut_closed(c, order, n, a) ==
    [k \in Held(Touch(order, n)) |-> IF k = n THEN a \o <<a[1]>> ELSE c[k]]

\* the wrapper stores the result of a miss; a full cache drops its least
\* recently used entry
CachePut(c, order, n, a) ==
    [k \in Held(Touch(order, n)) |-> IF k = n THEN a ELSE c[k]]

FreshRecords == {RecordOf(gr) : gr \in GeneticResults} \cup {PathlessRecord}

\* records as callers hand them in: fresh ones, and ones that went through
\* prepare_pdf_data before (the record is enriched in place)
Records ==
    FreshRecords \cup {SetItem(d, "RadarGraphBase64", StalePayload) : d \in FreshRecords}

\* lines 89-93: the series of a record, or the error the extraction raises
ExtractSeries(data) ==
    IF "EDAPPGS006" \notin DOMAIN data
        THEN [ok |-> FALSE, err |-> KeyError("EDAPPGS006")]
    ELSE IF "ResultInfo" \notin DOMAIN data["EDAPPGS006"]
        THEN [ok |-> FALSE, err |-> KeyError("ResultInfo")]
    ELSE IF "genetic_results" \notin DOMAIN data["EDAPPGS006"]["ResultInfo"]
        THEN [ok |-> FALSE, err |-> KeyError("genetic_results")]
    ELSE LET genetic_results == data["EDAPPGS006"]["ResultInfo"]["genetic_results"]
             idx    == 1..Len(genetic_results)
             parsed == [i \in idx |->
                          IF "result" \in DOMAIN genetic_results[i]
                          THEN IntParse(genetic_results[i]["result"])
                          ELSE [ok |-> FALSE, err |-> KeyError("result")]]
         IN  IF \E i \in idx : "holland_code" \notin DOMAIN genetic_results[i]
                 THEN [ok |-> FALSE, err |-> KeyError("holland_code")]
             ELSE IF \E i \in idx : ~parsed[i].ok
                 THEN [ok |-> FALSE,
                       err |-> parsed[CHOOSE i \in idx :
                                 ~parsed[i].ok /\ \A j \in idx : j < i => parsed[j].ok].err]
             ELSE [ok |-> TRUE,
                   categories |-> [i \in idx |-> genetic_results[i]["holland_code"]],
                   values     |-> [i \in idx |-> parsed[i].val]]

-----------------------------------------------------------------------------
(* Export *)

\* what matplotlib's savefig can write
SupportedFormats == {"svg", "png", "webp", "pdf", "jpg"}

FormatLists == {<<>>, <<"svg">>, <<"webp", "png">>, <<"svg", "bmp">>}

ViewLimit == 120

\* the bytes savefig writes for a figure in a format
SaveFig(figure, format) ==
    [format |-> format,
     image  |-> [owner |-> figure.owner, artists |-> figure.artists,
                 xlim |-> figure.xlim, ylim |-> figure.ylim]]

\* base64.b64encode(...).decode('utf-8')
B64Encode(bytes) == [b64 |-> bytes]

\* the buffer format of one requested format (lines 135-148)
BufferFormat(fmt) == IF fmt = "webp" THEN "png" ELSE fmt

\* a plausible slip: webp goes to the file only, with no entry in results
ExportedResults_fileonly(results, fmt, figure) ==
    IF fmt = "webp" THEN results
    ELSE SetItem(results, fmt, B64Encode(SaveFig(figure, BufferFormat(fmt))))

\* lines 133-151: the buffer is filled, encoded and stored under the format
ExportedResults(results, fmt, figure) ==
    SetItem(results, fmt, B64Encode(SaveFig(figure, BufferFormat(fmt))))

-----------------------------------------------------------------------------
(* The external renderer *)

OutputPaths == {<<"output", "final.pdf">>, <<"final.pdf">>}

\* os.path.dirname
Dirname(path) == SubSeq(path, 1, Len(path) - 1)

ExitCodes == {0, 1, 2}

CalledProcessError(code, cmd, stdout, stderr) ==
    [kind |-> "CalledProcessError", returncode |-> code, cmd |-> cmd,
     output |-> stdout, stderr |-> stderr]

\* subprocess.run without capture_output: stdout and stderr are None
subprocess_run(args, code, check) ==
    IF check /\ code # 0
    THEN [ok |-> FALSE, err |-> CalledProcessError(code, args, None, None)]
    ELSE [ok |-> TRUE,
          val |-> [args |-> args, returncode |-> code, stdout |-> None, stderr |-> None]]

\* a plausible slip: check=True dropped and line 204's return restored
RenderOutcome_unchecked(args, code, output_path) ==
    [ok |-> TRUE, val |-> output_path]

\* a plausible slip: the directory of the output is returned, not the file
RenderOutcome_dirname(args, code, output_path) ==
    LET process == subprocess_run(args, code, TRUE)
    IN  IF ~process.ok THEN process ELSE [ok |-> TRUE, val |-> Dirname(output_path)]

\* lines 198-212
RenderOutcome(args, code, output_path) ==
    LET process == subprocess_run(args, code, TRUE)
    IN  IF ~process.ok THEN process
        ELSE IF process.val.returncode = 0 THEN [ok |-> TRUE, val |-> output_path]
        ELSE [ok |-> FALSE,
              err |-> CalledProcessError(process.val.returncode, "node", None, None)]

-----------------------------------------------------------------------------
(* State *)

VARIABLES
    mode,       \* "seq": one call at a time, as main() runs; "conc": the callers' calls
                \* interleave; "cache": one call at a time on a full cache; "plot" and
                \* "grid": lines 97-100 and _create_radar_grid on their own
    cache,      \* the lru_cache of _calculate_radar_positions: n_points -> angle list
    used,       \* the counts asked for so far, least recently used first; the cache
                \* holds the last CacheMaxSize of them, the earlier ones were evicted
    figs,       \* pyplot's open figures in activation order; the last one is the current figure
    webpFile,   \* images_dir/radar_chart.webp
    callsMade,  \* calls started so far
    pc,         \* where each caller's call stands
    frame,      \* the locals of each caller's call
    data,       \* the record each caller passes (mutated in place by prepare_pdf_data)
    outcome     \* what the caller's call returned or raised

vars == <<mode, cache, used, figs, webpFile, callsMade, pc, frame, data, outcome>>

EmptyMap == <<>>

NoOutcome == [state |-> "none"]

Returned(v) == [state |-> "returned", val |-> v]

Raised(e) == [state |-> "raised", err |-> e]

EmptyFrame ==
    [id |-> 0, entry |-> "none", formats |-> <<>>, output_path |-> <<>>,
     data0 |-> EmptyMap, n |-> 0 - 1, values |-> <<>>, angles |-> <<>>, hit |-> FALSE,
     poly |-> <<>>, fig |-> 0, idx |-> 0, results |-> EmptyMap, wrote |-> FALSE,
     chart |-> NoOutcome, json_string |-> [json |-> EmptyMap], ran |-> <<>>,
     max_value |-> DefaultMaxValue]

DefaultOutputPath == <<"output", "final.pdf">>

ActiveCallers == IF mode \in {"seq", "cache"} THEN {1} ELSE Callers

\* what the callers call: everything when the calls follow one another; chart
\* generation on well-formed records when they interleave
EntryPoints == IF mode = "seq" THEN {"chart", "prepare", "pdf"} ELSE {"chart"}

\* with a full cache: a count it holds and one it has never seen
InputRecords ==
    IF mode = "seq" THEN Records
    ELSE IF mode = "cache"
         THEN {RecordOf(GoodResults(n, 0)) : n \in {1, CacheMaxSize + 1}}
         ELSE {RecordOf(GoodResults(n, 0)) : n \in 1..MaxN}

InputFormats ==
    IF mode = "seq" THEN FormatLists
    ELSE IF mode = "cache" THEN {<<"svg">>} ELSE {<<"svg">>, <<"webp", "png">>}

Resting(c) == pc[c] \in {"idle", "done"}

\* a plausible slip: prepare_pdf_data's handler returns the record instead
\* of raising again
Propagate_swallowed(c, err) ==
    /\ pc' = [pc EXCEPT ![c] = IF frame[c].entry = "pdf" THEN "makedirs" ELSE "done"]
    /\ outcome' = [outcome EXCEPT ![c] =
                      IF frame[c].entry = "chart" THEN Raised(err)
                      ELSE IF frame[c].entry = "prepare" THEN Returned(data[c])
                      ELSE @]

\* an exception raised in generate_radar_chart leaves the call: the except
\* blocks (160-162, 173-175) log and re-raise it, and generate_pdf_subprocess
\* has no handler
Propagate(c, err) ==
    /\ pc' = [pc EXCEPT ![c] = "done"]
    /\ outcome' = [outcome EXCEPT ![c] = Raised(err)]

\* generate_radar_chart raises: nothing is cleaned up on the way out
ChartRaise(c, err) ==
    /\ frame' = [frame EXCEPT ![c].chart = Raised(err)]
    /\ Propagate(c, err)

\* plt.figure(): the next figure number
NextNum == IF figs = <<>> THEN 1
           ELSE 1 + (CHOOSE m \in {figs[k].num : k \in 1..Len(figs)} :
                        \A k \in 1..Len(figs) : figs[k].num <= m)

NewFigure(num, owner) ==
    [num |-> num, owner |-> owner, artists |-> <<>>, axis |-> "on",
     xlim |-> <<0, 1>>, ylim |-> <<0, 1>>, xlimBy |-> 0, ylimBy |-> 0]

\* the position in figs of the figure numbered num
FigIndex(num) == CHOOSE k \in 1..Len(figs) : figs[k].num = num

\* plt.gcf(): the current figure is the last one activated
CurrentIndex == Len(figs)

Init ==
    /\ mode = "seq"
    /\ cache = EmptyMap
    /\ used = <<>>
    /\ figs = <<>>
    /\ webpFile = [exists |-> FALSE]
    /\ callsMade = 0
    /\ pc = [c \in Callers |-> "idle"]
    /\ frame = [c \in Callers |-> EmptyFrame]
    /\ data = [c \in Callers |-> EmptyMap]
    /\ outcome = [c \in Callers |-> NoOutcome]

InitConc ==
    /\ mode = "conc"
    /\ cache = EmptyMap
    /\ used = <<>>
    /\ figs = <<>>
    /\ webpFile = [exists |-> FALSE]
    /\ callsMade = 0
    /\ pc = [c \in Callers |-> "idle"]
    /\ frame = [c \in Callers |-> EmptyFrame]
    /\ data = [c \in Callers |-> EmptyMap]
    /\ outcome = [c \in Callers |-> NoOutcome]

\* the series plotting step on its own (lines 97-100), handed any non-empty
\* score list and the angle table of any count from 1
PlotScores == {0, 50, 100}

InitPlot ==
    /\ mode = "plot"
    /\ cache = EmptyMap
    /\ used = <<>>
    /\ figs = <<>>
    /\ webpFile = [exists |-> FALSE]
    /\ callsMade = 1
    /\ pc = [c \in Callers |-> IF c = 1 THEN "coords" ELSE "idle"]
    /\ \E k \in 1..MaxN, m \in 1..MaxN : \E vs \in [1..k -> PlotScores] :
          frame = [c \in Callers |->
                     IF c = 1
                     THEN [EmptyFrame EXCEPT !.id = 1, !.entry = "chart",
                                             !.values = vs, !.n = k,
                                             !.angles = calculate_radar_positions(m)]
                     ELSE EmptyFrame]
    /\ data = [c \in Callers |-> EmptyMap]
    /\ outcome = [c \in Callers |-> NoOutcome]

\* a generator that has charted records of 1, 2, ... CacheMaxSize categories
\* in that order: the cache is full and count 1 is the least recently used
InitWarm ==
    /\ mode = "cache"
    /\ cache = [n \in 1..CacheMaxSize |-> calculate_radar_positions(n)]
    /\ used = [n \in 1..CacheMaxSize |-> n]
    /\ figs = <<>>
    /\ webpFile = [exists |-> FALSE]
    /\ callsMade = 0
    /\ pc = [c \in Callers |-> "idle"]
    /\ frame = [c \in Callers |-> EmptyFrame]
    /\ data = [c \in Callers |-> EmptyMap]
    /\ outcome = [c \in Callers |-> NoOutcome]

\* the largest max_value handed to _create_radar_grid
MaxGridValue == 60

\* _create_radar_grid called on a fresh axes with the angles of n categories
\* and a max_value of the caller's choice
InitGrid ==
    /\ mode = "grid"
    /\ cache = EmptyMap
    /\ used = <<>>
    /\ figs = <<NewFigure(1, 1)>>
    /\ webpFile = [exists |-> FALSE]
    /\ callsMade = 1
    /\ pc = [c \in Callers |-> IF c = 1 THEN "grid" ELSE "idle"]
    /\ \E k \in 1..MaxN, mv \in GridStep..MaxGridValue :
          frame = [c \in Callers |->
                     IF c = 1
                     THEN [EmptyFrame EXCEPT !.id = 1, !.entry = "grid", !.n = k,
                                             !.angles = calculate_radar_positions(k),
                                             !.fig = 1, !.max_value = mv]
                     ELSE EmptyFrame]
    /\ data = [c \in Callers |-> EmptyMap]
    /\ outcome = [c \in Callers |-> NoOutcome]

-----------------------------------------------------------------------------
(* The calls *)

\* a caller calls generate_radar_chart(d, fmts), prepare_pdf_data(d) or
\* generate_pdf_subprocess(d, path)
Call(c) ==
    /\ c \in ActiveCallers
    /\ Resting(c)
    /\ callsMade < MaxCalls
    /\ mode = "conc" => pc[c] = "idle"
    /\ \E e \in EntryPoints, d \in InputRecords, fmts \in InputFormats \cup {<<"svg">>},
             path \in OutputPaths :
          /\ e # "chart" => fmts = <<"svg">>
          /\ e # "pdf" => path = DefaultOutputPath
          /\ frame' = [frame EXCEPT ![c] =
                          [EmptyFrame EXCEPT !.id = callsMade + 1, !.entry = e,
                                             !.formats = fmts, !.output_path = path,
                                             !.data0 = d]]
          /\ data' = [data EXCEPT ![c] = d]
    /\ callsMade' = callsMade + 1
    /\ pc' = [pc EXCEPT ![c] = "extract"]
    /\ outcome' = [outcome EXCEPT ![c] = NoOutcome]
    /\ UNCHANGED <<mode, cache, used, figs, webpFile>>

\* lines 89-93
Extract(c) ==
    /\ pc[c] = "extract"
    /\ LET s == ExtractSeries(data[c])
       IN  IF s.ok
           THEN /\ frame' = [frame EXCEPT ![c].values = s.values,
                                           ![c].n = Len(s.categories)]
                /\ pc' = [pc EXCEPT ![c] = "angles"]
                /\ UNCHANGED outcome
           ELSE ChartRaise(c, s.err)
    /\ UNCHANGED <<mode, cache, used, figs, webpFile, callsMade, data>>

\* line 94, the lru_cache wrapper: a hit returns the cached list and makes
\* its key the most recently used
LookupAngles(c) ==
    /\ pc[c] = "angles"
    /\ LET n == frame[c].n
       IN  IF n \in DOMAIN cache
           THEN /\ frame' = [frame EXCEPT ![c].angles = cache[n], ![c].hit = TRUE]
                /\ used' = Touch(used, n)
                /\ pc' = [pc EXCEPT ![c] = "coords"]
           ELSE /\ pc' = [pc EXCEPT ![c] = "compute"]
                /\ UNCHANGED <<frame, used>>
    /\ UNCHANGED <<mode, cache, figs, webpFile, callsMade, data, outcome>>

\* line 94, a miss: the function body runs (lines 36-39) and the wrapper
\* stores the result unless the key was added meanwhile.
ComputeAngles(c) ==
    /\ pc[c] = "compute"
    /\ LET n == frame[c].n
           a == calculate_radar_positions(n)
       IN  /\ frame' = [frame EXCEPT ![c].angles = a]
           /\ cache' = IF n \in DOMAIN cache THEN cache ELSE CachePut(cache, used, n, a)
           /\ used' = IF n \in DOMAIN cache THEN used ELSE Touch(used, n)
    /\ pc' = [pc EXCEPT ![c] = "coords"]
    /\ UNCHANGED <<mode, figs, webpFile, callsMade, data, outcome>>

\* lines 97-100
Coords(c) ==
    /\ pc[c] = "coords"
    /\ LET r == SeriesCoords(frame[c].values, frame[c].angles)
       IN  IF r.ok
           THEN /\ frame' = [frame EXCEPT ![c].poly = r.val]
                /\ pc' = [pc EXCEPT ![c] = "subplots"]
                /\ UNCHANGED outcome
           ELSE ChartRaise(c, r.err)
    /\ UNCHANGED <<mode, cache, used, figs, webpFile, callsMade, data>>

\* line 103: plt.subplots creates a figure and makes it the current one
Subplots(c) ==
    /\ pc[c] = "subplots"
    /\ figs' = Append(figs, NewFigure(NextNum, frame[c].id))
    /\ frame' = [frame EXCEPT ![c].fig = NextNum]
    /\ pc' = [pc EXCEPT ![c] = "draw"]
    /\ UNCHANGED <<mode, cache, used, webpFile, callsMade, data, outcome>>

DrawError == [kind |-> "RuntimeError", at |-> "draw"]

\* lines 106-125: everything is drawn through ax, the call's own axes. The
\* drawing calls can raise (memory, fonts, backend): then the grid is on the
\* figure and the rest is not.
Draw(c) ==
    /\ pc[c] = "draw"
    /\ \E fails \in BOOLEAN :
          LET k    == FigIndex(frame[c].fig)
              grid == create_radar_grid(frame[c].angles, DefaultMaxValue)
              rest == add_radar_labels(DefaultMaxValue) \o Spokes(frame[c].angles)
                          \o SeriesArtists(frame[c].poly)
          IN  IF fails
              THEN /\ figs' = [figs EXCEPT ![k].artists = grid]
                   /\ ChartRaise(c, DrawError)
              ELSE /\ figs' = [figs EXCEPT ![k].artists = grid \o rest,
                                           ![k].axis = "off"]
                   /\ pc' = [pc EXCEPT ![c] = "xlim"]
                   /\ UNCHANGED <<frame, outcome>>
    /\ UNCHANGED <<mode, cache, used, webpFile, callsMade, data>>

\* _create_radar_grid(ax, angles, max_value) on the call's axes
CreateGrid(c) ==
    /\ pc[c] = "grid"
    /\ figs' = [figs EXCEPT ![FigIndex(frame[c].fig)].artists =
                    @ \o create_radar_grid(frame[c].angles, frame[c].max_value)]
    /\ pc' = [pc EXCEPT ![c] = "gridded"]
    /\ UNCHANGED <<mode, cache, used, webpFile, callsMade, frame, data, outcome>>

\* line 126: plt.xlim acts on the current figure
XLim(c) ==
    /\ pc[c] = "xlim"
    /\ figs' = [figs EXCEPT ![CurrentIndex].xlim = <<0 - ViewLimit, ViewLimit>>,
                            ![CurrentIndex].xlimBy = frame[c].id]
    /\ pc' = [pc EXCEPT ![c] = "ylim"]
    /\ UNCHANGED <<mode, cache, used, webpFile, callsMade, frame, data, outcome>>

\* line 127: plt.ylim acts on the current figure; then the export loop starts
YLim(c) ==
    /\ pc[c] = "ylim"
    /\ figs' = [figs EXCEPT ![CurrentIndex].ylim = <<0 - ViewLimit, ViewLimit>>,
                            ![CurrentIndex].ylimBy = frame[c].id]
    /\ frame' = [frame EXCEPT ![c].idx = 1]
    /\ pc' = [pc EXCEPT ![c] = IF frame[c].formats = <<>> THEN "close" ELSE "export"]
    /\ UNCHANGED <<mode, cache, used, webpFile, callsMade, data, outcome>>

FormatError == [kind |-> "ValueError", at |-> "savefig"]

SaveError == [kind |-> "OSError", at |-> "savefig"]

\* lines 132-152, one round of the loop: plt.savefig saves the current figure.
\* It raises on a format it does not know, and it can raise while rendering
\* or writing; for webp the second savefig (line 144) can raise after the
\* file is written.
Export(c) ==
    /\ pc[c] = "export"
    /\ \E save \in {"ok", "fails", "fails_late"} :
          LET fmt == frame[c].formats[frame[c].idx]
              cur == figs[CurrentIndex]
          IN  /\ IF fmt \notin SupportedFormats
                 THEN /\ save = "ok"
                      /\ ChartRaise(c, FormatError)
                      /\ UNCHANGED webpFile
                 ELSE IF save = "fails"
                 THEN /\ ChartRaise(c, SaveError)
                      /\ UNCHANGED webpFile
                 ELSE IF save = "fails_late"
                 THEN /\ fmt = "webp"
                      /\ webpFile' = [exists |-> TRUE, content |-> SaveFig(cur, "webp")]
                      /\ ChartRaise(c, SaveError)
                 ELSE /\ webpFile' = IF fmt = "webp"
                                     THEN [exists |-> TRUE, content |-> SaveFig(cur, "webp")]
                                     ELSE webpFile
                      /\ frame' = [frame EXCEPT
                            ![c].results = ExportedResults(@, fmt, cur),
                            ![c].wrote = @ \/ fmt = "webp",
                            ![c].idx = @ + 1]
                      /\ pc' = [pc EXCEPT ![c] = IF frame[c].idx = Len(frame[c].formats)
                                                 THEN "close" ELSE "export"]
                      /\ UNCHANGED outcome
    /\ UNCHANGED <<mode, cache, used, figs, callsMade, data>>

\* plt.close(fig): the figure leaves the registry
WithoutFigure(num) == SelectSeq(figs, LAMBDA f : f.num # num)

\* lines 155-158: the figure is closed and the results are returned
Close(c) ==
    /\ pc[c] = "close"
    /\ figs' = WithoutFigure(frame[c].fig)
    /\ frame' = [frame EXCEPT ![c].chart = Returned(frame[c].results)]
    /\ IF frame[c].entry = "chart"
       THEN /\ outcome' = [outcome EXCEPT ![c] = Returned(frame[c].results)]
            /\ pc' = [pc EXCEPT ![c] = "done"]
       ELSE /\ pc' = [pc EXCEPT ![c] = "assign"]
            /\ UNCHANGED outcome
    /\ UNCHANGED <<mode, cache, used, webpFile, callsMade, data>>

\* a plausible slip: the record is rebuilt from the chart alone
Enrich_rebuilt(record, payload) == [RadarGraphBase64 |-> payload]

\* line 169
Enrich(record, payload) == SetItem(record, "RadarGraphBase64", payload)

\* lines 169-171: the record is enriched in place and returned
Assign(c) ==
    /\ pc[c] = "assign"
    /\ data' = [data EXCEPT ![c] = Enrich(@, frame[c].results["svg"])]
    /\ IF frame[c].entry = "prepare"
       THEN /\ outcome' = [outcome EXCEPT ![c] = Returned(data'[c])]
            /\ pc' = [pc EXCEPT ![c] = "done"]
       ELSE /\ pc' = [pc EXCEPT ![c] = "makedirs"]
            /\ UNCHANGED outcome
    /\ UNCHANGED <<mode, cache, used, figs, webpFile, callsMade, frame>>

DirError == [kind |-> "FileNotFoundError", at |-> "makedirs"]

LaunchError == [kind |-> "FileNotFoundError", at |-> "node"]

\* lines 190-193: json.dumps, then os.makedirs of the output directory, which
\* raises on the empty name a bare file name has for a directory
Makedirs(c) ==
    /\ pc[c] = "makedirs"
    /\ IF Dirname(frame[c].output_path) = <<>>
       THEN /\ pc' = [pc EXCEPT ![c] = "done"]
            /\ outcome' = [outcome EXCEPT ![c] = Raised(DirError)]
            /\ UNCHANGED frame
       ELSE /\ frame' = [frame EXCEPT ![c].json_string = [json |-> data[c]]]
            /\ pc' = [pc EXCEPT ![c] = "run"]
            /\ UNCHANGED outcome
    /\ UNCHANGED <<mode, cache, used, figs, webpFile, callsMade, data>>

RenderArgs(c) ==
    [cmd |-> <<"node", "cli.js">>, data |-> frame[c].json_string,
     output |-> frame[c].output_path]

\* lines 198-212: the renderer runs and exits with some code, or node cannot
\* be started at all
Run(c) ==
    /\ pc[c] = "run"
    /\ \E launched \in BOOLEAN, code \in ExitCodes :
          IF ~launched
          THEN /\ code = 0
               /\ outcome' = [outcome EXCEPT ![c] = Raised(LaunchError)]
               /\ UNCHANGED frame
          ELSE LET r == RenderOutcome(RenderArgs(c), code, frame[c].output_path)
               IN  /\ frame' = [frame EXCEPT ![c].ran =
                                    Append(@, [args |-> RenderArgs(c), code |-> code])]
                   /\ outcome' = [outcome EXCEPT ![c] =
                                    IF r.ok THEN Returned(r.val) ELSE Raised(r.err)]
    /\ pc' = [pc EXCEPT ![c] = "done"]
    /\ UNCHANGED <<mode, cache, used, figs, webpFile, callsMade, data>>

Next ==
    \/ \E c \in Callers : Call(c)
    \/ \E c \in Callers : Extract(c)
    \/ \E c \in Callers : LookupAngles(c)
    \/ \E c \in Callers : ComputeAngles(c)
    \/ \E c \in Callers : Coords(c)
    \/ \E c \in Callers : Subplots(c)
    \/ \E c \in Callers : Draw(c)
    \/ \E c \in Callers : XLim(c)
    \/ \E c \in Callers : YLim(c)
    \/ \E c \in Callers : Export(c)
    \/ \E c \in Callers : Close(c)
    \/ \E c \in Callers : Assign(c)
    \/ \E c \in Callers : Makedirs(c)
    \/ \E c \in Callers : Run(c)

\* the program as main() runs it: calls one after the other
Spec == Init /\ [][Next]_vars

NextConc ==
    \/ \E c \in Callers : Call(c)
    \/ \E c \in Callers : Extract(c)
    \/ \E c \in Callers : LookupAngles(c)
    \/ \E c \in Callers : ComputeAngles(c)
    \/ \E c \in Callers : Coords(c)
    \/ \E c \in Callers : Subplots(c)
    \/ \E c \in Callers : Draw(c)
    \/ \E c \in Callers : XLim(c)
    \/ \E c \in Callers : YLim(c)
    \/ \E c \in Callers : Export(c)
    \/ \E c \in Callers : Close(c)

\* one call from each of two call sites, their steps interleaved
SpecConc == InitConc /\ [][NextConc]_vars

NextPlot == \E c \in Callers : Coords(c)

\* the series plotting step applied to arbitrary inputs
SpecPlot == InitPlot /\ [][NextPlot]_vars

\* chart calls one after another on a generator whose cache is full
SpecCache == InitWarm /\ [][NextConc]_vars

NextGrid == \E c \in Callers : CreateGrid(c)

\* _create_radar_grid alone, on every max_value from 25 to MaxGridValue
SpecGrid == InitGrid /\ [][NextGrid]_vars

-----------------------------------------------------------------------------
(* Properties *)

\* the call has its angle table
GotAngles(c) ==
    \/ pc[c] \in {"coords", "subplots", "draw", "xlim", "ylim", "export", "close",
                  "assign", "makedirs", "run"}
    \/ pc[c] = "done" /\ frame[c].fig # 0

\* a is the table of n spokes: n angles, angle i being pi/2 - 2*pi*i/n
IsAngleTable(a, n) ==
    /\ Len(a) = n
    /\ RatEq(a[1], <<1, 2>>)
    /\ \A i \in 0..(n - 1) : RatEq(a[i + 1], <<n - 4 * i, 2 * n>>)
    /\ \A i \in 1..(n - 1) : RatEq(RatSub(a[i + 1], a[i]), <<0 - 2, n>>)

\* C1: for n >= 1 the angle table a call gets has n angles, starts at pi/2,
\* has angle i equal to pi/2 - 2*pi*i/n, consecutive angles differing by
\* -2*pi/n, and every call with the same n gets the same table (the one the
\* cache holds for n).
C1_AngleTable ==
    /\ \A n \in DOMAIN cache : n >= 1 => IsAngleTable(cache[n], n)
    /\ \A c \in Callers :
          (GotAngles(c) /\ frame[c].n >= 1) =>
              /\ IsAngleTable(frame[c].angles, frame[c].n)
              /\ frame[c].n \in DOMAIN cache
              /\ frame[c].angles = cache[frame[c].n]

\* a second call with the same count of three or more takes its table from the cache
C1_Witness ==
    \E c \in Callers : pc[c] = "coords" /\ frame[c].hit /\ frame[c].n >= 3

Closed(pts, n) == Len(pts) = n + 1 /\ pts[1] = pts[n + 1]

\* the call has built its data polygon
HasPolygon(c) ==
    \/ pc[c] \in {"subplots", "draw", "xlim", "ylim", "export", "close",
                  "assign", "makedirs", "run"}
    \/ pc[c] = "done" /\ frame[c].fig # 0

\* the call has drawn on its figure, which is still open
HasDrawn(c) ==
    /\ pc[c] \in {"xlim", "ylim", "export", "close"}
    /\ \E k \in 1..Len(figs) : figs[k].num = frame[c].fig

\* C2: for a record with n >= 1 entries the data polygon has n+1 points and
\* its first point is its last; so has every grid ring drawn for the call.
C2_PolygonsClosed ==
    \A c \in Callers :
        /\ (HasPolygon(c) /\ frame[c].n >= 1) => Closed(frame[c].poly, frame[c].n)
        /\ (HasDrawn(c) /\ frame[c].n >= 1) =>
              LET arts == figs[FigIndex(frame[c].fig)].artists
              IN  /\ \E k \in 1..Len(arts) : arts[k].kind = "ring"
                  /\ \A k \in 1..Len(arts) :
                        arts[k].kind \in {"ring", "outline"} => Closed(arts[k].pts, frame[c].n)

\* a chart of three spokes is drawn
C2_Witness ==
    \E c \in Callers : HasDrawn(c) /\ frame[c].n = 3 /\ Len(frame[c].poly) = 4

\* C3: when generate_radar_chart raises inside generate_pdf_subprocess, the
\* call raises that same error, the caller's record is as it was handed in
\* (no RadarGraphBase64 added or changed), and the renderer was not run.
C3_AllOrNothing ==
    \A c \in Callers :
        (frame[c].entry = "pdf" /\ frame[c].chart.state = "raised") =>
            /\ pc[c] = "done"
            /\ outcome[c] = Raised(frame[c].chart.err)
            /\ data[c] = frame[c].data0
            /\ frame[c].ran = <<>>

\* the export of a well-formed record's chart fails inside generate_pdf_subprocess
C3_Witness ==
    \E c \in Callers :
        /\ frame[c].entry = "pdf"
        /\ frame[c].chart = Raised(SaveError)
        /\ outcome[c].state = "raised"
        /\ "RadarGraphBase64" \notin DOMAIN data[c]

\* every caller is between calls
AllResting == \A c \in Callers : Resting(c)

\* C4: every figure generate_radar_chart creates is released before the
\* call ends, whether it returns or raises; once the calls are over no figure
\* of theirs is open.
C4_FiguresReleased ==
    /\ \A c \in Callers :
          pc[c] = "done" => \A k \in 1..Len(figs) : figs[k].owner # frame[c].id
    /\ AllResting => figs = <<>>

\* the renderer runs of the call, in order
LastRun(c) == frame[c].ran[Len(frame[c].ran)]

\* C5: when the chart pipeline succeeds and the renderer exits with code 0,
\* generate_pdf_subprocess returns the output_path it was given.
C5_ReturnsOutputPath ==
    \A c \in Callers :
        (frame[c].entry = "pdf" /\ frame[c].chart.state = "returned"
            /\ frame[c].ran # <<>> /\ LastRun(c).code = 0) =>
                /\ pc[c] = "done"
                /\ outcome[c] = Returned(frame[c].output_path)
                /\ outcome[c].val \in OutputPaths

\* the renderer has exited with code 0
C5_Witness ==
    \E c \in Callers :
        /\ pc[c] = "done" /\ frame[c].entry = "pdf"
        /\ frame[c].ran # <<>> /\ LastRun(c).code = 0
        /\ outcome[c].state = "returned"

\* C6: when the renderer exits with a non-zero code, generate_pdf_subprocess
\* raises a failure that carries that code, and returns no path.
C6_NonZeroExitRaises ==
    \A c \in Callers :
        (frame[c].ran # <<>> /\ LastRun(c).code # 0) =>
            /\ pc[c] = "done"
            /\ outcome[c].state = "raised"
            /\ outcome[c].err.kind = "CalledProcessError"
            /\ outcome[c].err.returncode = LastRun(c).code

\* the renderer has exited with code 2
C6_Witness ==
    \E c \in Callers :
        /\ pc[c] = "done" /\ frame[c].ran # <<>> /\ LastRun(c).code = 2
        /\ outcome[c].state = "raised"

\* the payloads a call has exported so far
Payloads(c) == {frame[c].results[f] : f \in DOMAIN frame[c].results}

\* C7: with two calls of different counts interleaved, each call sets the
\* view window of, and exports, only the figure it created, and works with
\* the angle table of its own count.
C7_NoBleed ==
    /\ \A k \in 1..Len(figs) :
          /\ figs[k].xlimBy \in {0, figs[k].owner}
          /\ figs[k].ylimBy \in {0, figs[k].owner}
    /\ \A c \in Callers :
          /\ \A p \in Payloads(c) : p.b64.image.owner = frame[c].id
          /\ (GotAngles(c) /\ frame[c].n >= 1) => IsAngleTable(frame[c].angles, frame[c].n)

PrepareReturned(c) ==
    pc[c] = "done" /\ frame[c].entry = "prepare" /\ outcome[c].state = "returned"

\* the svg payload of the chart the call drew
IsOwnSvg(c, p) ==
    /\ p.b64.format = "svg"
    /\ p.b64.image.owner = frame[c].id
    /\ \E k \in 1..Len(p.b64.image.artists) :
          p.b64.image.artists[k] = [kind |-> "outline", pts |-> frame[c].poly]

\* C9 as stated: prepare_pdf_data returns the caller's record with exactly
\* one new field, RadarGraphBase64, holding the chart's svg payload, and all
\* else as it was.
C9_OneNewField ==
    \A c \in Callers :
        PrepareReturned(c) =>
            LET r == outcome[c].val
                d == frame[c].data0
            IN  /\ r = data[c]
                /\ DOMAIN r \ DOMAIN d = {"RadarGraphBase64"}
                /\ DOMAIN d \subseteq DOMAIN r
                /\ IsOwnSvg(c, r["RadarGraphBase64"])
                /\ \A k \in DOMAIN d : r[k] = d[k]

\* C9, amended: prepare_pdf_data returns the caller's record with
\* RadarGraphBase64 holding the chart's svg payload, added when the record
\* did not have the field and overwritten when it had; every other key and
\* value is as it was.
C9_FieldSet ==
    \A c \in Callers :
        PrepareReturned(c) =>
            LET r == outcome[c].val
                d == frame[c].data0
            IN  /\ r = data[c]
                /\ DOMAIN r = DOMAIN d \cup {"RadarGraphBase64"}
                /\ IsOwnSvg(c, r["RadarGraphBase64"])
                /\ \A k \in DOMAIN d \ {"RadarGraphBase64"} : r[k] = d[k]

\* a record that already had the field comes back with the new chart in it
C9_Witness ==
    \E c \in Callers :
        /\ PrepareReturned(c)
        /\ "RadarGraphBase64" \in DOMAIN frame[c].data0
        /\ "OrderInfo" \in DOMAIN outcome[c].val
        /\ outcome[c].val["RadarGraphBase64"] # frame[c].data0["RadarGraphBase64"]

\* C10: for a record with no genetic_results entries the angle table is
\* refused: _calculate_radar_positions(0) returns nothing (and caches
\* nothing), and the call fails with InvalidInput.
C10_ZeroRefused ==
    /\ 0 \notin DOMAIN cache
    /\ \A c \in Callers :
          frame[c].n = 0 =>
              /\ pc[c] \in {"angles", "compute", "done"}
              /\ pc[c] = "done" =>
                    /\ outcome[c].state = "raised"
                    /\ outcome[c].err.kind = "InvalidInput"

\* generate_radar_chart has returned its results
ChartReturned(c) == frame[c].chart.state = "returned"

\* the formats the call was asked for
Requested(c) == {frame[c].formats[i] : i \in 1..Len(frame[c].formats)}

\* radar_chart.webp holds the figure of this call
FileWrittenBy(c) ==
    /\ webpFile.exists
    /\ webpFile.content.format = "webp"
    /\ webpFile.content.image.owner = frame[c].id

\* C11: a successful generate_radar_chart returns a mapping whose keys are
\* exactly the requested formats, each holding the base64 text of a buffer
\* of this chart; radar_chart.webp is written by the call if and only if
\* webp was requested, and then the mapping still has its webp entry.
C11_FormatsExported ==
    \A c \in Callers :
        ChartReturned(c) =>
            LET r == frame[c].chart.val
            IN  /\ DOMAIN r = Requested(c)
                /\ \A f \in DOMAIN r :
                      /\ DOMAIN r[f] = {"b64"}
                      /\ r[f].b64.image.owner = frame[c].id
                /\ FileWrittenBy(c) <=> "webp" \in Requested(c)
                /\ "webp" \in Requested(c) => "webp" \in DOMAIN r

\* a call asked for webp and png has returned, and the file is written
C11_Witness ==
    \E c \in Callers :
        /\ ChartReturned(c)
        /\ frame[c].formats = <<"webp", "png">>
        /\ FileWrittenBy(c)
        /\ DOMAIN frame[c].chart.val = {"webp", "png"}

\* the number a score string of the input records stands for
ScoreOf(str) ==
    CASE str = <<"0">> -> 0
      [] str = <<"1", "0", "0">> -> 100
      [] str = <<"1", "5", "0">> -> 150
      [] str = <<"-", "5">> -> 0 - 5
      [] str = <<"5">> -> 5

\* the genetic_results entries of the record the call was handed
EntriesOf(c) == frame[c].data0["EDAPPGS006"]["ResultInfo"]["genetic_results"]

\* the artists of kind k on the call's figure
ArtistsOf(c, k) ==
    LET arts == figs[FigIndex(frame[c].fig)].artists
    IN  {arts[j] : j \in {i \in 1..Len(arts) : arts[i].kind = k}}

\* angle i of n spokes, counted from 1
SpokeAngle(i, n) == <<n - 4 * (i - 1), 2 * n>>

\* C12: data point i lies on spoke i at the radius the i-th entry's score
\* parses to, in the mapping's order, unclamped: 0 at the origin, 100 on
\* vertex i of the 100 ring, a score outside 0..100 at its own value.
C12_PointsOnSpokes ==
    \A c \in Callers :
        /\ (HasPolygon(c) /\ frame[c].n >= 1) =>
              /\ Len(EntriesOf(c)) = frame[c].n
              /\ \A i \in 1..frame[c].n :
                    /\ frame[c].poly[i].r = ScoreOf(EntriesOf(c)[i]["result"])
                    /\ RatEq(frame[c].poly[i].theta, SpokeAngle(i, frame[c].n))
        /\ (HasDrawn(c) /\ frame[c].n >= 1) =>
              /\ ArtistsOf(c, "outline") = {[kind |-> "outline", pts |-> frame[c].poly]}
              /\ \A i \in 1..frame[c].n :
                    LET score == ScoreOf(EntriesOf(c)[i]["result"])
                        p     == frame[c].poly[i]
                    IN  /\ score = 0 => p.r = 0
                        /\ score = 100 =>
                              \E g \in ArtistsOf(c, "ring") :
                                  g.value = 100 /\ g.pts[i] = p
                        /\ \E s \in ArtistsOf(c, "spoke") :
                              RatEq(s.pts[2].theta, SpokeAngle(i, frame[c].n))
                                  /\ s.pts[2].theta = p.theta

\* a chart with scores 0, 100 and 150 on its three spokes is drawn
C12_Witness ==
    \E c \in Callers :
        /\ HasDrawn(c) /\ frame[c].n = 3
        /\ frame[c].poly[1].r = 0
        /\ frame[c].poly[3].r = 150
        /\ \E g \in ArtistsOf(c, "ring") : g.value = 100 /\ g.pts[2] = frame[c].poly[2]

\* the call ended with the renderer's failure
RendererFailed(c) ==
    /\ pc[c] = "done"
    /\ frame[c].ran # <<>>
    /\ LastRun(c).code # 0
    /\ outcome[c].state = "raised"

\* C13: the failure raised on a non-zero renderer exit carries the
\* renderer's captured stdout and stderr besides the exit code.
C13_CarriesOutput ==
    \A c \in Callers :
        RendererFailed(c) =>
            /\ outcome[c].err.returncode = LastRun(c).code
            /\ outcome[c].err.output # None
            /\ outcome[c].err.stderr # None

\* the style of the emphasised ring and of the other rings (tenths)
EmphasisedStyle ==
    [color |-> "#333333", linewidth |-> 15, linestyle |-> "-", alpha |-> 10]

ThinStyle ==
    [color |-> "gray", linewidth |-> 5, linestyle |-> "--", alpha |-> 7]

Gridded(c) == pc[c] = "gridded"

\* the rings one per multiple of 25 up to max_value, each closed
RingsAtMultiples(c) ==
    LET rings == ArtistsOf(c, "ring")
    IN  /\ {g.value : g \in rings}
              = {v \in 1..frame[c].max_value : v % GridStep = 0}
        /\ \A v \in {g.value : g \in rings} :
              Cardinality({g \in rings : g.value = v}) = 1
        /\ \A g \in rings :
              /\ Closed(g.pts, frame[c].n)
              /\ \A i \in 1..frame[c].n :
                    /\ g.pts[i].r = g.value
                    /\ RatEq(g.pts[i].theta, SpokeAngle(i, frame[c].n))

\* C14: for every max_value >= 25 the grid has one closed ring at each
\* multiple of 25 up to max_value; exactly one ring, the one of radius
\* max_value, has the emphasised style and every other ring the thin one.
C14_OneEmphasised ==
    \A c \in Callers :
        Gridded(c) =>
            LET rings == ArtistsOf(c, "ring")
                bold  == {g \in rings : g.style = EmphasisedStyle}
            IN  /\ RingsAtMultiples(c)
                /\ Cardinality(bold) = 1
                /\ \A g \in bold : g.value = frame[c].max_value
                /\ \A g \in rings \ bold : g.style = ThinStyle

\* the counts asked for so far
Seen == {used[i] : i \in 1..Len(used)}

\* the list the cache holds for n is still the table of n spokes
HoldsTable(n) ==
    /\ Len(cache[n]) = n
    /\ n >= 1 => IsAngleTable(cache[n], n)

\* the function body is about to run for the call's count
Recomputing(c) == pc[c] = "compute"

\* C15 as stated: every cached angle sequence keeps length n and element i
\* equal to pi/2 - 2*pi*i/n whatever calls were made, and the table of a
\* count asked for before is never computed again.
C15_NeverRecomputed ==
    /\ \A n \in DOMAIN cache : HoldsTable(n)
    /\ \A c \in Callers : Recomputing(c) => frame[c].n \notin Seen

\* C15, amended: every cached angle sequence keeps length n and element i
\* equal to pi/2 - 2*pi*i/n whatever calls were made (failing ones included);
\* the cache holds the CacheMaxSize most recently used counts, a count among
\* them is served from the cache, and a table is computed only for a count
\* the cache does not hold (a new one, or one evicted since its last use).
C15_CacheIntact ==
    /\ \A n \in DOMAIN cache : HoldsTable(n)
    /\ DOMAIN cache = Held(used)
    /\ Cardinality(DOMAIN cache) <= CacheMaxSize
    /\ \A c \in Callers :
          /\ Recomputing(c) => frame[c].n \notin DOMAIN cache
          /\ frame[c].hit => /\ frame[c].n \in DOMAIN cache
                             /\ frame[c].angles = cache[frame[c].n]
          /\ HasPolygon(c) => /\ frame[c].n \in DOMAIN cache
                              /\ Len(frame[c].poly) = Len(cache[frame[c].n]) + 1

\* a count is served from the cache on its second use, after a first call
\* that failed and after the least recently used count was evicted
C15_Witness ==
    /\ pc[1] = "coords"
    /\ frame[1].hit
    /\ frame[1].n = CacheMaxSize + 1
    /\ 1 \in Seen \ DOMAIN cache
    /\ figs # <<>>

====
